---- MODULE Spec2Model ----
(***************************************************************************)
(* Model of the Electron Community Hub backend (final server.js, kept in   *)
(* src/unnamed/part_000 lines 241-730): an express application over one    *)
(* sqlite3 connection.  A route handler runs to completion; every          *)
(* db.run / db.get it issues is executed later by the database, in any     *)
(* order relative to the statements of other handlers, and its callback    *)
(* then runs to completion.  One action of the model is one handler or one *)
(* statement-plus-callback.                                                *)
(***************************************************************************)
EXTENDS Integers, Sequences, FiniteSets, TLC

\* ------------------------------------------------------------------ bounds
MaxRequests == 2
MaxTagList == 2
MaxFaults == 1
MaxClock == 1

\* ------------------------------------------------------- JavaScript values
\* A text is a sequence of characters; SP is the blank.
SP == " "

Digits == <<"0", "1", "2", "3", "4", "5", "6", "7", "8", "9">>

IsDigit(c) == \E i \in 1..10 : Digits[i] = c

DigitVal(c) == (CHOOSE i \in 1..10 : Digits[i] = c) - 1

\* A JSON value of a request body: kind k, text s (kind "str"), number n in
\* tenths (kind "num"), truth value b (kind "bool").
Undef == [k |-> "undef", s |-> <<>>, n |-> 0, b |-> FALSE]

Null == [k |-> "null", s |-> <<>>, n |-> 0, b |-> FALSE]

Str(t) == [k |-> "str", s |-> t, n |-> 0, b |-> FALSE]

Num(x) == [k |-> "num", s |-> <<>>, n |-> x, b |-> FALSE]

Bool(x) == [k |-> "bool", s |-> <<>>, n |-> 0, b |-> x]

\* !v is false: the value is truthy.
Truthy(v) ==
    CASE v.k = "undef" -> FALSE
      [] v.k = "null" -> FALSE
      [] v.k = "str" -> Len(v.s) > 0
      [] v.k = "num" -> v.n # 0
      [] v.k = "bool" -> v.b

\* v == null
LooseNull(v) == v.k \in {"undef", "null"}

RECURSIVE TrimLeft(_)
TrimLeft(t) == IF t # <<>> /\ Head(t) = SP THEN TrimLeft(Tail(t)) ELSE t

RECURSIVE TrimRight(_)
TrimRight(t) ==
    IF t # <<>> /\ t[Len(t)] = SP THEN TrimRight(SubSeq(t, 1, Len(t) - 1)) ELSE t

\* A trim that strips the trailing blanks only.
TrimEndOnly(t) == TrimRight(t)

\* String.prototype.trim
Trim(t) == TrimRight(TrimLeft(t))

RECURSIVE DecimalTenths(_)
DecimalTenths(t) ==
    IF t = <<>> THEN 0
    ELSE 10 * DecimalTenths(SubSeq(t, 1, Len(t) - 1)) + 10 * DigitVal(t[Len(t)])

\* Number(v): [nan, n], n in tenths.
ToNumber(v) ==
    CASE v.k = "num" -> [nan |-> FALSE, n |-> v.n]
      [] v.k = "bool" -> [nan |-> FALSE, n |-> IF v.b THEN 10 ELSE 0]
      [] v.k = "null" -> [nan |-> FALSE, n |-> 0]
      [] v.k = "undef" -> [nan |-> TRUE, n |-> 0]
      [] v.k = "str" ->
            LET t == Trim(v.s)
            IN IF \A i \in 1..Len(t) : IsDigit(t[i])
               THEN [nan |-> FALSE, n |-> DecimalTenths(t)]
               ELSE [nan |-> TRUE, n |-> 0]

\* ------------------------------------------------------------ request data
TextVals == {Undef, Null, Str(<<>>), Str(<<SP>>), Str(<<"p">>), Str(<<SP, "p", SP>>)}

RatingVals ==
    {Undef, Null, Num(-1), Num(0), Num(45), Num(50), Num(51),
     Str(<<>>), Str(<<SP>>), Str(<<"4">>), Str(<<"d">>), Bool(TRUE)}

TagNames == {<<"d">>, <<SP, "d">>, <<SP>>, <<"u">>}

TagLists == UNION {[1..n -> TagNames] : n \in 0..MaxTagList}

\* The tags field: an array of texts, or something that is no array.
NoTags == [isArray |-> FALSE, items |-> <<>>]

TagArray(l) == [isArray |-> TRUE, items |-> l]

BaseBody ==
    [name |-> Str(<<"p">>), author |-> Str(<<"p">>), version |-> Str(<<"p">>),
     rating |-> Num(45), tags |-> NoTags]

\* Request bodies of POST /api/plugins: the base body with one field varied.
PluginBodies ==
    {[BaseBody EXCEPT !.name = v] : v \in TextVals}
        \cup {[BaseBody EXCEPT !.author = v] : v \in TextVals}
        \cup {[BaseBody EXCEPT !.version = v] : v \in TextVals}
        \cup {[BaseBody EXCEPT !.rating = v] : v \in RatingVals}
        \cup {[BaseBody EXCEPT !.tags = TagArray(l)] : l \in TagLists}

SeverityVals == {Undef, Str(<<"d">>)}

IssueBodies ==
    [title : TextVals, severity : SeverityVals, status : SeverityVals]

FaqBodies == [question : TextVals, answer : TextVals]

\* ------------------------------------------------------------------- state
VARIABLES
    plugins,      \* table plugins: rows [id, name, author, version, rating]
    tags,         \* table tags: rows [id, name]
    plugin_tags,  \* table plugin_tags: rows [plugin_id, tag_id]
    issues,       \* table issues: rows [id, title, severity, status, created_at]
    faqs,         \* table faqs: rows [id, question, answer]
    req,          \* the requests: handler closures and pending statements
    started,      \* number of requests received
    faults,       \* number of storage failures injected
    now           \* the database clock, in seconds (CURRENT_TIMESTAMP)

vars == <<plugins, tags, plugin_tags, issues, faqs, req, started, faults, now>>

store == <<plugins, tags, plugin_tags, issues, faqs>>

Requests == 1..MaxRequests

\* The request slots: the routes that only read are served one request beyond
\* those of Requests.
Slots == 1..(MaxRequests + 1)

\* A request slot before its request arrives.
NoRequest ==
    [route |-> "none", st |-> "none", body |-> BaseBody, pluginId |-> 0,
     tagList |-> <<>>, pending |-> 0, sent |-> <<>>, stage |-> <<>>,
     outcome |-> <<>>, calls |-> <<>>, link |-> <<>>, linkTag |-> <<>>,
     createdId |-> 0, alone |-> TRUE, out |-> <<>>, at |-> 0, after |-> {}]

\* A request none of whose statements is still waiting to run.
Quiet(q) ==
    /\ q.st \notin {"insert", "fetch", "list"}
    /\ \A i \in 1..Len(q.stage) : q.stage[i] = "done" /\ q.link[i] # "queued"

\* res.status(code).json(...)
Respond(q, code) == [q EXCEPT !.sent = Append(@, code)]

\* ------------------------------------------------------------ the database
\* Whether a statement may fail with a storage error in this step.
FaultChoices == IF faults < MaxFaults THEN BOOLEAN ELSE {FALSE}

FaultCount(fail) == IF fail THEN faults + 1 ELSE faults

\* SELECT id FROM tags WHERE name = ?  (db.get: the first row, 0 when none)
FindTag(tbl, name) ==
    IF \E i \in 1..Len(tbl) : tbl[i].name = name
    THEN tbl[CHOOSE i \in 1..Len(tbl) :
                /\ tbl[i].name = name
                /\ \A j \in 1..(i - 1) : tbl[j].name # name].id
    ELSE 0

\* Table tags without its UNIQUE(name) constraint.
TagsInsertNoUnique(tbl, name) ==
    [err |-> FALSE, tbl |-> Append(tbl, [id |-> Len(tbl) + 1, name |-> name]),
     lastID |-> Len(tbl) + 1]

\* INSERT OR IGNORE INTO tags: a rejected row is no error, and the caller
\* reads a lastID that names no row of the table.
TagsInsertOrIgnore(tbl, name) ==
    IF \E i \in 1..Len(tbl) : tbl[i].name = name
    THEN [err |-> FALSE, tbl |-> tbl, lastID |-> Len(tbl) + 1]
    ELSE [err |-> FALSE, tbl |-> Append(tbl, [id |-> Len(tbl) + 1, name |-> name]),
          lastID |-> Len(tbl) + 1]

\* INSERT INTO tags (name) VALUES (?) under name TEXT NOT NULL UNIQUE.
TagsInsert(tbl, name) ==
    IF \E i \in 1..Len(tbl) : tbl[i].name = name
    THEN [err |-> TRUE, tbl |-> tbl, lastID |-> 0]
    ELSE [err |-> FALSE, tbl |-> Append(tbl, [id |-> Len(tbl) + 1, name |-> name]),
          lastID |-> Len(tbl) + 1]

\* Table plugin_tags without its PRIMARY KEY (plugin_id, tag_id).
LinkInsertNoKey(tbl, p, t) == Append(tbl, [plugin_id |-> p, tag_id |-> t])

\* Table plugin_tags keyed by plugin_id alone.
LinkInsertKeyPluginOnly(tbl, p, t) ==
    IF \E i \in 1..Len(tbl) : tbl[i].plugin_id = p
    THEN tbl
    ELSE Append(tbl, [plugin_id |-> p, tag_id |-> t])

\* INSERT OR IGNORE INTO plugin_tags under PRIMARY KEY (plugin_id, tag_id).
LinkInsert(tbl, p, t) ==
    IF \E i \in 1..Len(tbl) : tbl[i].plugin_id = p /\ tbl[i].tag_id = t
    THEN tbl
    ELSE Append(tbl, [plugin_id |-> p, tag_id |-> t])

\* SELECT * FROM <table> WHERE id = ?
RowsWithId(tbl, id) ==
    LET HasId(row) == row.id = id IN SelectSeq(tbl, HasId)

\* ------------------------------------------------- helper functions for tags
\* linkPluginTag: the guard and the queued INSERT OR IGNORE.
linkPluginTag(q, i, tagId) ==
    IF q.pluginId = 0 \/ tagId = 0
    THEN q
    ELSE [q EXCEPT !.link[i] = "queued", !.linkTag[i] = tagId]

\* The callback POST /api/plugins hands to ensureTagExists for tag i.
TagCallback(q, i, tagId, how) ==
    LET q1 == IF tagId # 0 THEN linkPluginTag(q, i, tagId) ELSE q
        q2 == [q1 EXCEPT !.pending = @ - 1, !.stage[i] = "done",
                         !.outcome[i] = how, !.calls[i] = @ + 1]
    IN IF q2.pending = 0 THEN Respond(q2, 201) ELSE q2

\* ensureTagExists without the return after the blank-name callback: the lookup
\* is issued as well.
ensureTagExistsNoReturn(q, i) ==
    IF Trim(q.tagList[i]) = <<>>
    THEN [TagCallback(q, i, 0, "blank") EXCEPT !.stage[i] = "find"]
    ELSE [q EXCEPT !.stage[i] = "find"]

\* ensureTagExists returning on a blank name without calling back.
ensureTagExistsSilentBlank(q, i) ==
    IF Trim(q.tagList[i]) = <<>>
    THEN [q EXCEPT !.stage[i] = "done"]
    ELSE [q EXCEPT !.stage[i] = "find"]

\* ensureTagExists up to its db.get: a blank name calls back at once.
ensureTagExists(q, i) ==
    IF Trim(q.tagList[i]) = <<>>
    THEN TagCallback(q, i, 0, "blank")
    ELSE [q EXCEPT !.stage[i] = "find"]

\* tagList.forEach from tag i on.
RECURSIVE TagLoop(_, _)
TagLoop(q, i) ==
    IF i > Len(q.tagList) THEN q ELSE TagLoop(ensureTagExists(q, i), i + 1)

\* --------------------------------------------------------- POST /api/plugins
MissingField(body) ==
    \/ ~Truthy(body.name)
    \/ ~Truthy(body.author)
    \/ ~Truthy(body.version)
    \/ LooseNull(body.rating)

BadRating(body) ==
    LET numericRating == ToNumber(body.rating)
    IN numericRating.nan \/ numericRating.n < 0 \/ numericRating.n > 50

\* The route handler: validation, tag normalisation, the queued plugin insert.
PostPlugin(r, body) ==
    /\ r = started + 1
    /\ r \in Requests
    /\ started' = r
    /\ LET busy == \E o \in Requests : req[o].route = "plugins" /\ ~Quiet(req[o])
           q == [NoRequest EXCEPT !.route = "plugins", !.body = body]
           rejected == MissingField(body) \/ BadRating(body)
           \* alone records whether another plugin creation overlapped this one
           others == [o \in Slots |->
                        IF req[o].route = "plugins" /\ ~Quiet(req[o]) /\ ~rejected
                        THEN [req[o] EXCEPT !.alone = FALSE] ELSE req[o]]
       IN req' = [others EXCEPT ![r] =
                    IF rejected
                    THEN Respond([q EXCEPT !.st = "closed"], 400)
                    ELSE [q EXCEPT !.st = "insert", !.alone = ~busy,
                                   !.tagList = IF body.tags.isArray
                                               THEN body.tags.items ELSE <<>>]]
    /\ UNCHANGED <<store, faults, now>>

PluginRow(id, body) ==
    [id |-> id, name |-> Trim(body.name.s), author |-> Trim(body.author.s),
     version |-> Trim(body.version.s), rating |-> ToNumber(body.rating).n]

\* The plugin INSERT runs and its callback handles the result.
PluginInserted(r, fail) ==
    /\ req[r].route = "plugins"
    /\ req[r].st = "insert"
    /\ faults' = FaultCount(fail)
    /\ UNCHANGED <<started, now>>
    /\ IF fail
       THEN /\ req' = [req EXCEPT ![r] = Respond([@ EXCEPT !.st = "closed"], 500)]
            /\ UNCHANGED store
       ELSE LET pluginId == Len(plugins) + 1
                n == Len(req[r].tagList)
                q == [req[r] EXCEPT !.pluginId = pluginId]
            IN /\ plugins' = Append(plugins, PluginRow(pluginId, req[r].body))
               /\ req' = [req EXCEPT ![r] =
                            IF n = 0
                            THEN Respond([q EXCEPT !.st = "closed"], 201)
                            ELSE TagLoop([q EXCEPT !.st = "tags",
                                            !.pending = n,
                                            !.stage = [i \in 1..n |-> "new"],
                                            !.outcome = [i \in 1..n |-> "none"],
                                            !.calls = [i \in 1..n |-> 0],
                                            !.link = [i \in 1..n |-> "none"],
                                            !.linkTag = [i \in 1..n |-> 0]], 1)]
               /\ UNCHANGED <<tags, plugin_tags, issues, faqs>>

\* The tag SELECT of ensureTagExists runs and its callback handles the row.
TagFound(r, i, fail) ==
    /\ req[r].route = "plugins"
    /\ i \in 1..Len(req[r].stage)
    /\ req[r].stage[i] = "find"
    /\ faults' = FaultCount(fail)
    /\ UNCHANGED <<started, now>>
    /\ LET id == FindTag(tags, Trim(req[r].tagList[i]))
       IN req' = [req EXCEPT ![r] =
                    IF fail THEN TagCallback(@, i, 0, "findErr")
                    ELSE IF id # 0 THEN TagCallback(@, i, id, "found")
                    ELSE [@ EXCEPT !.stage[i] = "insert"]]
    /\ UNCHANGED store

\* The tag INSERT of ensureTagExists runs and its callback handles the result.
TagInserted(r, i, fail) ==
    /\ req[r].route = "plugins"
    /\ i \in 1..Len(req[r].stage)
    /\ req[r].stage[i] = "insert"
    /\ faults' = FaultCount(fail)
    /\ UNCHANGED <<started, now>>
    /\ LET res == TagsInsert(tags, Trim(req[r].tagList[i]))
       IN IF fail
          THEN /\ req' = [req EXCEPT ![r] = TagCallback(@, i, 0, "insertErr")]
               /\ UNCHANGED tags
          ELSE /\ tags' = res.tbl
               /\ req' = [req EXCEPT ![r] =
                            IF res.err THEN TagCallback(@, i, 0, "conflict")
                            ELSE TagCallback(@, i, res.lastID, "created")]
    /\ UNCHANGED <<plugins, plugin_tags, issues, faqs>>

\* The link INSERT OR IGNORE of linkPluginTag runs; its callback only logs.
PluginTagLinked(r, i, fail) ==
    /\ req[r].route = "plugins"
    /\ i \in 1..Len(req[r].link)
    /\ req[r].link[i] = "queued"
    /\ faults' = FaultCount(fail)
    /\ UNCHANGED <<started, now>>
    /\ IF fail
       THEN /\ req' = [req EXCEPT ![r].link[i] = "failed"]
            /\ UNCHANGED plugin_tags
       ELSE /\ req' = [req EXCEPT ![r].link[i] = "done"]
            /\ plugin_tags' = LinkInsert(plugin_tags, req[r].pluginId, req[r].linkTag[i])
    /\ UNCHANGED <<plugins, tags, issues, faqs>>

\* ---------------------------------------------------------- POST /api/issues
Low == <<"l", "o", "w">>

Open == <<"o", "p", "e", "n">>

\* A destructuring default: used when the field is undefined.
Default(v, d) == IF v.k = "undef" THEN Str(d) ELSE v

PostIssue(r, body) ==
    /\ r = started + 1
    /\ r \in Slots
    /\ started' = r
    /\ LET q == [NoRequest EXCEPT !.route = "issues", !.body = body]
       IN req' = [req EXCEPT ![r] =
                    IF ~Truthy(body.title)
                    THEN Respond([q EXCEPT !.st = "closed"], 400)
                    ELSE [q EXCEPT !.st = "insert"]]
    /\ UNCHANGED <<store, faults, now>>

\* An INSERT that also binds the created_at of the request body.
IssueRowFromBody(id, body, clock) ==
    [id |-> id, title |-> Trim(body.title.s),
     severity |-> Default(body.severity, Low).s,
     status |-> Default(body.status, Open).s,
     created_at |-> IF "created_at" \in DOMAIN body /\ body.created_at.k = "num"
                    THEN body.created_at.n ELSE clock]

\* The row the INSERT stores: the trimmed title, severity and status as bound,
\* and created_at from the column default CURRENT_TIMESTAMP.
IssueRow(id, body, clock) ==
    [id |-> id, title |-> Trim(body.title.s),
     severity |-> Default(body.severity, Low).s,
     status |-> Default(body.status, Open).s,
     created_at |-> clock]

\* severity TEXT NOT NULL, status TEXT NOT NULL: a bound null is rejected.
IssueNotNullViolated(body) ==
    Default(body.severity, Low).k = "null" \/ Default(body.status, Open).k = "null"

IssueInserted(r, fail) ==
    /\ req[r].route = "issues"
    /\ req[r].st = "insert"
    /\ faults' = FaultCount(fail)
    /\ UNCHANGED <<started, now>>
    /\ IF fail \/ IssueNotNullViolated(req[r].body)
       THEN /\ req' = [req EXCEPT ![r] = Respond([@ EXCEPT !.st = "closed"], 500)]
            /\ UNCHANGED issues
       ELSE LET createdId == Len(issues) + 1
            IN /\ issues' = Append(issues, IssueRow(createdId, req[r].body, now))
               /\ req' = [req EXCEPT ![r].st = "fetch", ![r].createdId = createdId,
                                      ![r].at = now]
    /\ UNCHANGED <<plugins, tags, plugin_tags, faqs>>

\* SELECT * FROM issues WHERE id = ? runs and the row is sent.
IssueFetched(r, fail) ==
    /\ req[r].route = "issues"
    /\ req[r].st = "fetch"
    /\ faults' = FaultCount(fail)
    /\ UNCHANGED <<started, now>>
    /\ req' = [req EXCEPT ![r] =
                 IF fail THEN Respond([@ EXCEPT !.st = "closed"], 500)
                 ELSE Respond([@ EXCEPT !.st = "closed",
                                        !.out = RowsWithId(issues, req[r].createdId)], 201)]
    /\ UNCHANGED store

\* ----------------------------------------------------------- GET /api/issues
\* Bodies of POST /api/issues with a title, with severity and status omitted,
\* null or given, and with or without a created_at of the client's.
BaseIssue ==
    [title |-> Str(<<"p">>), severity |-> Undef, status |-> Undef,
     created_at |-> Undef]

IssueBodiesFull ==
    {BaseIssue,
     [BaseIssue EXCEPT !.severity = Null],
     [BaseIssue EXCEPT !.severity = Str(<<"d">>)],
     [BaseIssue EXCEPT !.status = Str(<<"d">>)],
     [BaseIssue EXCEPT !.severity = Str(<<"d">>), !.status = Str(<<"d">>)],
     [BaseIssue EXCEPT !.created_at = Num(9)]}

\* req.query of GET /api/issues.
IssueQueries ==
    [severity : {Undef, Str(<<"d">>)}, status : {Undef, Str(<<"d">>)}]

\* The rows the WHERE clause keeps: a filter is added when its parameter is
\* truthy.
MatchingIssues(query) ==
    {k \in 1..Len(issues) :
        /\ Truthy(query.severity) => issues[k].severity = query.severity.s
        /\ Truthy(query.status) => issues[k].status = query.status.s}

\* ORDER BY datetime(created_at) DESC: the orders SQL allows, rows with equal
\* created_at in any order.
IssueOrders(M) ==
    {o \in [1..Cardinality(M) -> M] :
        /\ \A a, b \in 1..Cardinality(M) : o[a] = o[b] => a = b
        /\ \A a, b \in 1..Cardinality(M) :
                a < b => issues[o[a]].created_at >= issues[o[b]].created_at}

\* The route handler: builds the query and queues db.all.
GetIssues(r, query) ==
    /\ r = started + 1
    /\ r \in Slots
    /\ started' = r
    /\ req' = [req EXCEPT ![r] =
                 [NoRequest EXCEPT !.route = "issuesGet", !.body = query, !.st = "list"]]
    /\ UNCHANGED <<store, faults, now>>

\* The SELECT runs and its callback sends the rows.
IssuesListed(r, fail) ==
    /\ req[r].route = "issuesGet"
    /\ req[r].st = "list"
    /\ faults' = FaultCount(fail)
    /\ UNCHANGED <<started, now>>
    /\ IF fail
       THEN req' = [req EXCEPT ![r] = Respond([@ EXCEPT !.st = "closed"], 500)]
       ELSE \E o \in IssueOrders(MatchingIssues(req[r].body)) :
                req' = [req EXCEPT ![r] =
                          Respond([@ EXCEPT !.st = "closed",
                                     !.out = [a \in DOMAIN o |-> issues[o[a]]]], 200)]
    /\ UNCHANGED store

\* A second of the database clock passes.
Tick ==
    /\ now < MaxClock
    /\ now' = now + 1
    /\ UNCHANGED <<store, req, started, faults>>

\* ------------------------------------------------------------ POST /api/faqs
PostFaq(r, body) ==
    /\ r = started + 1
    /\ r \in Slots
    /\ started' = r
    /\ LET q == [NoRequest EXCEPT !.route = "faqs", !.body = body]
       IN req' = [req EXCEPT ![r] =
                    IF ~Truthy(body.question) \/ ~Truthy(body.answer)
                    THEN Respond([q EXCEPT !.st = "closed"], 400)
                    ELSE [q EXCEPT !.st = "insert"]]
    /\ UNCHANGED <<store, faults, now>>

\* A row holding the question and answer exactly as the body carries them.
FaqRowAsSubmitted(id, body) ==
    [id |-> id, question |-> body.question.s, answer |-> body.answer.s]

\* The row the INSERT stores: question.trim() and answer.trim().
FaqRow(id, body) ==
    [id |-> id, question |-> Trim(body.question.s), answer |-> Trim(body.answer.s)]

FaqInserted(r, fail) ==
    /\ req[r].route = "faqs"
    /\ req[r].st = "insert"
    /\ faults' = FaultCount(fail)
    /\ UNCHANGED <<started, now>>
    /\ IF fail
       THEN /\ req' = [req EXCEPT ![r] = Respond([@ EXCEPT !.st = "closed"], 500)]
            /\ UNCHANGED faqs
       ELSE LET createdId == Len(faqs) + 1
                b == req[r].body
            IN /\ faqs' = Append(faqs, FaqRow(createdId, b))
               /\ req' = [req EXCEPT ![r].st = "fetch", ![r].createdId = createdId]
    /\ UNCHANGED <<plugins, tags, plugin_tags, issues>>

\* SELECT * FROM faqs WHERE id = ? runs and the row is sent.
FaqFetched(r, fail) ==
    /\ req[r].route = "faqs"
    /\ req[r].st = "fetch"
    /\ faults' = FaultCount(fail)
    /\ UNCHANGED <<started, now>>
    /\ req' = [req EXCEPT ![r] =
                 IF fail THEN Respond([@ EXCEPT !.st = "closed"], 500)
                 ELSE Respond([@ EXCEPT !.st = "closed",
                                        !.out = RowsWithId(faqs, req[r].createdId)], 201)]
    /\ UNCHANGED store

\* The requests that have been answered.
Answered == {q \in Slots : req[q].sent # <<>>}

\* -------------------------------------------------------- GET /api/plugins
\* Bodies of valid plugin creations that differ in rating, name and tags.
ListedBodies ==
    {BaseBody, [BaseBody EXCEPT !.rating = Num(0)],
     [BaseBody EXCEPT !.name = Str(<<"d">>)],
     [BaseBody EXCEPT !.tags = TagArray(<<(<<"d">>)>>)]}

\* The query string: each parameter absent or a text.
PluginQueries ==
    [tag : {Undef, Str(<<"d">>)}, minRating : {Undef, Str(<<"4">>)},
     search : {Undef, Str(<<"d">>)}]

\* Code points of the characters the model uses.
CharCode(c) ==
    CASE c = SP -> 32
      [] IsDigit(c) -> 48 + DigitVal(c)
      [] c = "d" -> 100
      [] c = "p" -> 112
      [] c = "u" -> 117

\* a <= b under SQLite's BINARY collation.
RECURSIVE TextLeq(_, _)
TextLeq(a, b) ==
    IF a = <<>> THEN TRUE
    ELSE IF b = <<>> THEN FALSE
    ELSE IF a[1] # b[1] THEN CharCode(a[1]) < CharCode(b[1])
    ELSE TextLeq(Tail(a), Tail(b))

\* The orders ORDER BY rating DESC, name ASC allows for the whole table: rows
\* equal in both keys may come in any order.
PluginOrders ==
    {o \in [1..Len(plugins) -> 1..Len(plugins)] :
        /\ \A a, b \in 1..Len(plugins) : a # b => o[a] # o[b]
        /\ \A a, b \in 1..Len(plugins) :
              a < b => \/ plugins[o[a]].rating > plugins[o[b]].rating
                       \/ /\ plugins[o[a]].rating = plugins[o[b]].rating
                          /\ TextLeq(plugins[o[a]].name, plugins[o[b]].name)}

\* GET /api/plugins arrives: the handler does not read req.query.
GetPlugins(r, query) ==
    /\ r = started + 1
    /\ r \in Slots
    /\ started' = r
    /\ req' = [req EXCEPT ![r] =
                 [NoRequest EXCEPT !.route = "pluginsGet", !.body = query,
                                   !.st = "list", !.after = Answered]]
    /\ UNCHANGED <<store, faults, now>>

\* SELECT * FROM plugins ORDER BY rating DESC, name ASC runs and its callback
\* sends the rows.
PluginsListed(r, fail) ==
    /\ req[r].route = "pluginsGet"
    /\ req[r].st = "list"
    /\ faults' = FaultCount(fail)
    /\ UNCHANGED <<started, now>>
    /\ IF fail
       THEN req' = [req EXCEPT ![r] = Respond([@ EXCEPT !.st = "closed"], 500)]
       ELSE \E o \in PluginOrders :
                req' = [req EXCEPT ![r] =
                          Respond([@ EXCEPT !.st = "closed",
                                     !.out = [a \in DOMAIN o |-> plugins[o[a]]]], 200)]
    /\ UNCHANGED store

\* GET /api/faqs arrives; `after` remembers the requests answered before it.
GetFaqs(r) ==
    /\ r = started + 1
    /\ r \in Slots
    /\ started' = r
    /\ req' = [req EXCEPT ![r] =
                 [NoRequest EXCEPT !.route = "faqsGet", !.st = "list",
                                   !.after = Answered]]
    /\ UNCHANGED <<store, faults, now>>

\* SELECT * FROM faqs ORDER BY id ASC runs and its callback sends the rows.
\* The table is kept in id order, so the rows are the table itself.
FaqsListed(r, fail) ==
    /\ req[r].route = "faqsGet"
    /\ req[r].st = "list"
    /\ faults' = FaultCount(fail)
    /\ UNCHANGED <<started, now>>
    /\ req' = [req EXCEPT ![r] =
                 IF fail THEN Respond([@ EXCEPT !.st = "closed"], 500)
                 ELSE Respond([@ EXCEPT !.st = "closed", !.out = faqs], 200)]
    /\ UNCHANGED store

\* ----------------------------------------------------------- specification
\* The tables as initializeDatabase leaves a new database file: empty.
Init ==
    /\ plugins = <<>>
    /\ tags = <<>>
    /\ plugin_tags = <<>>
    /\ issues = <<>>
    /\ faqs = <<>>
    /\ req = [r \in Slots |-> NoRequest]
    /\ started = 0
    /\ faults = 0
    /\ now = 0

Next ==
    \/ \E r \in Requests, body \in PluginBodies : PostPlugin(r, body)
    \/ \E r \in Requests, fail \in FaultChoices : PluginInserted(r, fail)
    \/ \E r \in Requests, i \in 1..MaxTagList, fail \in FaultChoices : TagFound(r, i, fail)
    \/ \E r \in Requests, i \in 1..MaxTagList, fail \in FaultChoices : TagInserted(r, i, fail)
    \/ \E r \in Requests, i \in 1..MaxTagList, fail \in FaultChoices : PluginTagLinked(r, i, fail)
    \/ \E r \in Requests, body \in IssueBodies : PostIssue(r, body)
    \/ \E r \in Requests, fail \in FaultChoices : IssueInserted(r, fail)
    \/ \E r \in Requests, fail \in FaultChoices : IssueFetched(r, fail)
    \/ \E r \in Requests, body \in FaqBodies : PostFaq(r, body)
    \/ \E r \in Requests, fail \in FaultChoices : FaqInserted(r, fail)
    \/ \E r \in Requests, fail \in FaultChoices : FaqFetched(r, fail)

Spec == Init /\ [][Next]_vars

\* The issue routes alone, with the clock running.
NextIssues ==
    \/ \E r \in Slots, body \in IssueBodiesFull : PostIssue(r, body)
    \/ \E r \in Slots, fail \in FaultChoices : IssueInserted(r, fail)
    \/ \E r \in Slots, fail \in FaultChoices : IssueFetched(r, fail)
    \/ \E r \in Slots, query \in IssueQueries : GetIssues(r, query)
    \/ \E r \in Slots, fail \in FaultChoices : IssuesListed(r, fail)
    \/ Tick

SpecIssues == Init /\ [][NextIssues]_vars

\* The FAQ routes alone.
NextFaqs ==
    \/ \E r \in Slots, body \in FaqBodies : PostFaq(r, body)
    \/ \E r \in Slots, fail \in FaultChoices : FaqInserted(r, fail)
    \/ \E r \in Slots, fail \in FaultChoices : FaqFetched(r, fail)
    \/ \E r \in Slots : GetFaqs(r)
    \/ \E r \in Slots, fail \in FaultChoices : FaqsListed(r, fail)

SpecFaqs == Init /\ [][NextFaqs]_vars

\* The plugin routes with the listing.
NextPlugins ==
    \/ \E r \in Requests, body \in ListedBodies : PostPlugin(r, body)
    \/ \E r \in Requests, fail \in FaultChoices : PluginInserted(r, fail)
    \/ \E r \in Requests, i \in 1..MaxTagList, fail \in FaultChoices : TagFound(r, i, fail)
    \/ \E r \in Requests, i \in 1..MaxTagList, fail \in FaultChoices : TagInserted(r, i, fail)
    \/ \E r \in Requests, i \in 1..MaxTagList, fail \in FaultChoices : PluginTagLinked(r, i, fail)
    \/ \E r \in Slots, query \in PluginQueries : GetPlugins(r, query)
    \/ \E r \in Slots, fail \in FaultChoices : PluginsListed(r, fail)

SpecPlugins == Init /\ [][NextPlugins]_vars

\* Tag lists that are empty, all blank, with a duplicate, and with two names.
LiveTagLists ==
    {<<>>, <<(<<SP>>), (<<SP>>)>>, <<(<<"d">>), (<<SP, "d">>)>>,
     <<(<<"d">>), (<<"u">>)>>}

\* Plugin creations with those tag lists, with no tags field, and rejected ones.
LiveBodies ==
    {BaseBody, [BaseBody EXCEPT !.name = Undef], [BaseBody EXCEPT !.rating = Num(51)]}
        \cup {[BaseBody EXCEPT !.tags = TagArray(l)] : l \in LiveTagLists}

NextLive ==
    \/ \E r \in Requests, body \in LiveBodies : PostPlugin(r, body)
    \/ \E r \in Requests, fail \in FaultChoices : PluginInserted(r, fail)
    \/ \E r \in Requests, i \in 1..MaxTagList, fail \in FaultChoices : TagFound(r, i, fail)
    \/ \E r \in Requests, i \in 1..MaxTagList, fail \in FaultChoices : TagInserted(r, i, fail)
    \/ \E r \in Requests, i \in 1..MaxTagList, fail \in FaultChoices : PluginTagLinked(r, i, fail)

\* sqlite3 runs every statement handed to db.run or db.get and then calls its
\* callback: a statement that is waiting is eventually executed.
CallbacksDelivered ==
    \A r \in Requests :
        /\ WF_vars(\E fail \in FaultChoices : PluginInserted(r, fail))
        /\ \A i \in 1..MaxTagList :
              /\ WF_vars(\E fail \in FaultChoices : TagFound(r, i, fail))
              /\ WF_vars(\E fail \in FaultChoices : TagInserted(r, i, fail))
              /\ WF_vars(\E fail \in FaultChoices : PluginTagLinked(r, i, fail))

SpecLive == Init /\ [][NextLive]_vars /\ CallbacksDelivered

\* ------------------------------------------------------------------ claims
PluginReqs == {r \in Requests : req[r].route = "plugins"}

TagIdx(r) == 1..Len(req[r].stage)

\* The tag name resolution i of request r looks up.
Wanted(r, i) == Trim(req[r].tagList[i])

\* The rows of plugin_tags holding the pair (p, t).
LinkRows(p, t) ==
    {k \in 1..Len(plugin_tags) :
        plugin_tags[k].plugin_id = p /\ plugin_tags[k].tag_id = t}

\* The rows of tags named n.
TagRows(n) == {k \in 1..Len(tags) : tags[k].name = n}

\* Request r has answered 201 and none of its statements is waiting.
Completed(r) == req[r].route = "plugins" /\ req[r].sent = <<201>> /\ Quiet(req[r])

\* C1: a resolution whose INSERT the unique-name constraint rejected hands the
\* id of the existing tag row to its caller (and so queues the link), instead
\* of signalling skip.
C1_ConflictResolvesToExistingTag ==
    \A r \in PluginReqs : \A i \in TagIdx(r) :
        req[r].outcome[i] = "conflict" =>
            /\ req[r].linkTag[i] # 0
            /\ req[r].linkTag[i] = FindTag(tags, Wanted(r, i))

\* C2: once two successful plugin creations that both carry the tag "d" have
\* completed (no storage failure injected), tags holds exactly one row named
\* "d" and plugin_tags exactly two rows, one per plugin, both for that tag.
C2_TwoPluginsShareOneTag ==
    \A r1, r2 \in PluginReqs :
        ( /\ r1 # r2
          /\ faults = 0
          /\ Completed(r1) /\ Completed(r2)
          /\ req[r1].tagList = << <<"d">> >>
          /\ req[r2].tagList = << <<"d">> >> )
        => /\ Cardinality(TagRows(<<"d">>)) = 1
           /\ Len(plugin_tags) = 2
           /\ \A r \in {r1, r2} :
                Cardinality(LinkRows(req[r].pluginId, FindTag(tags, <<"d">>))) = 1

\* C3: once the 201 of a plugin creation is sent, no link INSERT of that plugin
\* is still waiting, and every tag resolved for it is linked in plugin_tags.
C3_ResponseAfterLinks ==
    \A r \in PluginReqs :
        201 \in {req[r].sent[k] : k \in 1..Len(req[r].sent)} =>
            \A i \in TagIdx(r) :
                /\ req[r].link[i] # "queued"
                /\ req[r].outcome[i] \in {"found", "created"} =>
                       LinkRows(req[r].pluginId, req[r].linkTag[i]) # {}

\* C4: no two rows of tags have the same name (exact match).
C4_TagNamesUnique ==
    \A i, j \in 1..Len(tags) : tags[i].name = tags[j].name => i = j

\* C4 witness: two requests raced on a new name and the loser's INSERT was
\* rejected.
C4_Witness ==
    \E r1, r2 \in PluginReqs : \E i \in TagIdx(r1), j \in TagIdx(r2) :
        /\ r1 # r2
        /\ req[r1].outcome[i] = "created"
        /\ req[r2].outcome[j] = "conflict"
        /\ Wanted(r1, i) = Wanted(r2, j)

\* C5: every row of plugin_tags names a row of plugins and a row of tags, and
\* a link is queued or written only with the id of an inserted plugin and the
\* id of the tag row carrying the resolved name.
C5_LinksReferToExistingRows ==
    /\ \A k \in 1..Len(plugin_tags) :
            /\ \E p \in 1..Len(plugins) : plugins[p].id = plugin_tags[k].plugin_id
            /\ \E t \in 1..Len(tags) : tags[t].id = plugin_tags[k].tag_id
    /\ \A r \in PluginReqs : \A i \in TagIdx(r) :
            req[r].link[i] # "none" =>
                /\ \E p \in 1..Len(plugins) : plugins[p].id = req[r].pluginId
                /\ \E t \in 1..Len(tags) :
                        /\ tags[t].id = req[r].linkTag[i]
                        /\ tags[t].name = Wanted(r, i)

\* C5 witness: links of two plugins, one to a tag the request created and one
\* to a tag it found, are in plugin_tags.
C5_Witness ==
    /\ Len(plugin_tags) >= 2
    /\ \E r1, r2 \in PluginReqs : \E i \in TagIdx(r1), j \in TagIdx(r2) :
        /\ req[r1].outcome[i] = "created" /\ req[r1].link[i] = "done"
        /\ req[r2].outcome[j] = "found" /\ req[r2].link[j] = "done"

\* The distinct tag names of request r as they stand in its list.
RawNames(r) == {req[r].tagList[i] : i \in 1..Len(req[r].tagList)}

\* The distinct tag names of request r after trimming, blank names dropped.
ResolvedNames(r) == {Trim(n) : n \in RawNames(r)} \ {<<>>}

\* The rows of plugin_tags of plugin p.
PluginLinks(p) == {k \in 1..Len(plugin_tags) : plugin_tags[k].plugin_id = p}

HasDuplicates(l) == \E i, j \in 1..Len(l) : i # j /\ l[i] = l[j]

\* No statement of request r failed with a storage error.
NoStorageError(r) ==
    \A i \in TagIdx(r) :
        /\ req[r].outcome[i] \notin {"findErr", "insertErr"}
        /\ req[r].link[i] # "failed"

FieldAbsent(v) == v.k \in {"undef", "null"} \/ (v.k = "str" /\ v.s = <<>>)

\* A rating that is a number, or a text spelling one.
IsNumeric(v) ==
    \/ v.k = "num"
    \/ /\ v.k = "str"
       /\ Trim(v.s) # <<>>
       /\ \A i \in 1..Len(Trim(v.s)) : IsDigit(Trim(v.s)[i])

NumericValue(v) == IF v.k = "num" THEN v.n ELSE DecimalTenths(Trim(v.s))

\* A rating that is present, numeric and within [0, 5].
RatingAcceptable(v) ==
    ~FieldAbsent(v) /\ IsNumeric(v) /\ NumericValue(v) >= 0 /\ NumericValue(v) <= 50

\* The request of slot q fails validation, as the interface describes it.
FailsValidation(q) ==
    CASE q.route = "plugins" ->
            \/ FieldAbsent(q.body.name)
            \/ FieldAbsent(q.body.author)
            \/ FieldAbsent(q.body.version)
            \/ ~RatingAcceptable(q.body.rating)
      [] q.route = "issues" -> FieldAbsent(q.body.title)
      [] q.route = "faqs" ->
            FieldAbsent(q.body.question) \/ FieldAbsent(q.body.answer)
      [] OTHER -> FALSE

\* C7: a request that fails validation gets no answer but one 400 and writes
\* no row.
C7_InvalidRequestWritesNothing ==
    \A r \in Requests :
        FailsValidation(req[r]) =>
            /\ req[r].sent \in {<<>>, <<400>>}
            /\ req[r].pluginId = 0
            /\ req[r].createdId = 0

\* C8: with name, author and version present, a plugin is accepted and stored
\* exactly when its rating is present, numeric and within [0, 5], is answered
\* 400 otherwise, and every stored rating lies within [0, 5].
C8_AcceptedIffRatingInRange ==
    /\ \A r \in PluginReqs :
            ( /\ ~FieldAbsent(req[r].body.name)
              /\ ~FieldAbsent(req[r].body.author)
              /\ ~FieldAbsent(req[r].body.version) )
            => IF RatingAcceptable(req[r].body.rating)
               THEN req[r].sent # <<400>>
               ELSE req[r].sent \in {<<>>, <<400>>} /\ req[r].pluginId = 0
    /\ \A k \in 1..Len(plugins) : plugins[k].rating >= 0 /\ plugins[k].rating <= 50

\* C9: a request one of whose storage operations failed answers its caller
\* with one error response.
C9_FailureReportedOnce ==
    \A r \in PluginReqs :
        (~NoStorageError(r) /\ Quiet(req[r])) => req[r].sent = <<500>>

\* C10: a finished link call leaves its pair exactly once in plugin_tags, no
\* pair is in the table twice, and a step that changes plugin_tags appends the
\* one pair of a waiting link call and changes no other table.
C10_LinkIdempotent ==
    [][ /\ \A r \in Requests : \A i \in 1..Len(req'[r].link) :
              req'[r].link[i] = "done" =>
                  Cardinality({k \in 1..Len(plugin_tags') :
                                  /\ plugin_tags'[k].plugin_id = req'[r].pluginId
                                  /\ plugin_tags'[k].tag_id = req'[r].linkTag[i]}) = 1
        /\ \A k1, k2 \in 1..Len(plugin_tags') :
              plugin_tags'[k1] = plugin_tags'[k2] => k1 = k2
        /\ plugin_tags' # plugin_tags =>
              /\ UNCHANGED <<plugins, tags, issues, faqs>>
              /\ \E r \in Requests : \E i \in 1..Len(req[r].link) :
                    /\ req[r].link[i] = "queued"
                    /\ LinkRows(req[r].pluginId, req[r].linkTag[i]) = {}
                    /\ plugin_tags' = Append(plugin_tags,
                          [plugin_id |-> req[r].pluginId,
                           tag_id |-> req[r].linkTag[i]])
      ]_vars

\* C10 witness: two link calls of one request for the same pair have both
\* finished (the second found the pair present).
C10_Witness ==
    \E r \in PluginReqs : \E i, j \in TagIdx(r) :
        /\ i # j
        /\ req[r].link[i] = "done" /\ req[r].link[j] = "done"
        /\ req[r].linkTag[i] = req[r].linkTag[j]

NotBlank(c) == c # SP

\* A name without its blanks.
Core(n) == SelectSeq(n, NotBlank)

\* The resolutions of request r that handed a tag id to the caller.
Resolved(r) == {i \in TagIdx(r) : req[r].outcome[i] \in {"found", "created"}}

\* The number of resolutions of slots 1..r that created a tag row.
RECURSIVE CreatedUpTo(_)
CreatedUpTo(r) ==
    IF r = 0 THEN 0
    ELSE CreatedUpTo(r - 1)
            + Cardinality({i \in 1..Len(req[r].outcome) : req[r].outcome[i] = "created"})

\* C11: every tag row stores a non-blank name without leading or trailing
\* blanks; a name of blanks only is skipped (no lookup, no link); a resolution
\* that hands out an id hands out the id of the row named by the trimmed name,
\* so names differing only in surrounding blanks resolve to the same row; and
\* tag rows are created only by resolutions that found no row.
C11_ResolverTrims ==
    /\ \A k \in 1..Len(tags) :
            /\ tags[k].name # <<>>
            /\ Head(tags[k].name) # SP
            /\ tags[k].name[Len(tags[k].name)] # SP
    /\ \A r \in PluginReqs : \A i \in TagIdx(r) :
            Core(req[r].tagList[i]) = <<>> =>
                /\ req[r].outcome[i] = "blank"
                /\ req[r].stage[i] = "done"
                /\ req[r].link[i] = "none"
    /\ \A r \in PluginReqs : \A i \in Resolved(r) :
            \E k \in 1..Len(tags) :
                /\ tags[k].id = req[r].linkTag[i]
                /\ tags[k].name = Core(req[r].tagList[i])
    /\ \A r1, r2 \in PluginReqs : \A i \in Resolved(r1), j \in Resolved(r2) :
            Core(req[r1].tagList[i]) = Core(req[r2].tagList[j]) =>
                req[r1].linkTag[i] = req[r2].linkTag[j]
    /\ Len(tags) = CreatedUpTo(MaxRequests)

\* C11 witness: one request created the row "d", another resolved " d" to that
\* same row, and a blank name of that request was skipped.
C11_Witness ==
    \E r1, r2 \in PluginReqs : \E i \in TagIdx(r1), j, k \in TagIdx(r2) :
        /\ r1 # r2
        /\ req[r1].tagList[i] = <<"d">> /\ req[r1].outcome[i] = "created"
        /\ req[r2].tagList[j] = <<SP, "d">> /\ req[r2].outcome[j] = "found"
        /\ req[r1].linkTag[i] = req[r2].linkTag[j]
        /\ req[r2].outcome[k] = "blank"

\* C12: every stored row has non-empty required text fields.
C12_StoredTextNonEmpty ==
    /\ \A k \in 1..Len(plugins) :
            plugins[k].name # <<>> /\ plugins[k].author # <<>> /\ plugins[k].version # <<>>
    /\ \A k \in 1..Len(issues) : issues[k].title # <<>>
    /\ \A k \in 1..Len(faqs) : faqs[k].question # <<>> /\ faqs[k].answer # <<>>

\* C18: a plugin creation sends at most one response; each tag's callback
\* fires at most once, and exactly once when its resolution has ended; pending
\* is the number of tags whose callback has not fired; and the 201 of a
\* request with tags is sent exactly when pending is 0.
C18_AtMostOneResponse ==
    \A r \in PluginReqs :
        /\ Len(req[r].sent) <= 1
        /\ \A i \in TagIdx(r) :
                /\ req[r].calls[i] <= 1
                /\ req[r].calls[i] = 1 <=> req[r].stage[i] = "done"
        /\ req[r].st = "tags" =>
                /\ req[r].pending =
                       Cardinality({i \in TagIdx(r) : req[r].calls[i] = 0})
                /\ req[r].sent = <<201>> <=> req[r].pending = 0

\* C18 witness: a request whose first callback fired synchronously (blank
\* name) and whose second fired from a failed database callback has answered.
C18_Witness ==
    \E r \in PluginReqs :
        /\ req[r].sent = <<201>>
        /\ req[r].pending = 0
        /\ Len(req[r].outcome) = 2
        /\ req[r].outcome[1] = "blank"
        /\ req[r].outcome[2] \in {"findErr", "insertErr", "conflict"}

IssueReqs == {r \in Slots : req[r].route = "issues"}

\* The text the claim expects in a defaulted column.
Expected(v, d) == IF v.k = "undef" THEN d ELSE v.s

\* C13: an issue creation with a non-empty title that has ended (no storage
\* failure injected) was answered 201 with the stored row: severity and status
\* as given, "low" and "open" when omitted, with its id and timestamp.
C13_IssueCreatedWithDefaults ==
    \A r \in IssueReqs :
        (~FieldAbsent(req[r].body.title) /\ faults = 0 /\ req[r].st = "closed") =>
            /\ req[r].sent = <<201>>
            /\ req[r].createdId \in 1..Len(issues)
            /\ req[r].out = <<issues[req[r].createdId]>>
            /\ req[r].out[1].id = req[r].createdId
            /\ req[r].out[1].severity = Expected(req[r].body.severity, Low)
            /\ req[r].out[1].status = Expected(req[r].body.status, Open)
            /\ req[r].out[1].created_at = req[r].at

\* The bodies differ in nothing but a created_at of the client's.
SameButCreatedAt(b1, b2) ==
    /\ b1.title = b2.title
    /\ b1.severity = b2.severity
    /\ b1.status = b2.status

\* C14: the created_at of a stored issue is the database clock at the time of
\* its INSERT, whatever the request carried: two creations that differ only in
\* a client-supplied created_at and are inserted at the same time store the
\* same created_at.
C14_CreatedAtFromStorage ==
    /\ \A r \in IssueReqs :
            req[r].createdId # 0 => issues[req[r].createdId].created_at = req[r].at
    /\ \A r1, r2 \in IssueReqs :
            ( /\ req[r1].createdId # 0 /\ req[r2].createdId # 0
              /\ "created_at" \in DOMAIN req[r1].body
              /\ "created_at" \in DOMAIN req[r2].body
              /\ SameButCreatedAt(req[r1].body, req[r2].body)
              /\ req[r1].at = req[r2].at )
            => issues[req[r1].createdId].created_at
                   = issues[req[r2].createdId].created_at

\* C14 witness: two issues whose requests differ only in created_at (one
\* carries 9, the other none) were inserted in the same second.
C14_Witness ==
    \E r1, r2 \in IssueReqs :
        /\ req[r1].createdId # 0 /\ req[r2].createdId # 0
        /\ "created_at" \in DOMAIN req[r1].body
        /\ "created_at" \in DOMAIN req[r2].body
        /\ SameButCreatedAt(req[r1].body, req[r2].body)
        /\ req[r1].body.created_at = Num(9)
        /\ req[r2].body.created_at = Undef
        /\ req[r1].at = req[r2].at

\* A row passes the filters the query supplies.
PassesFilters(row, query) ==
    /\ query.severity.k = "str" => row.severity = query.severity.s
    /\ query.status.k = "str" => row.status = query.status.s

\* C15: the rows a GET /api/issues sends are exactly the rows of issues that
\* pass every supplied filter, each once, by created_at descending and with no
\* later-created row (larger id) after an earlier-created one.
C15_ListIssuesNewestFirst ==
    [][ \A r \in Slots :
            ( /\ req[r].route = "issuesGet"
              /\ req[r].st = "list"
              /\ req'[r].sent = <<200>> )
            => LET out == req'[r].out
               IN /\ \A k \in 1..Len(issues) :
                        Cardinality({a \in 1..Len(out) : out[a] = issues[k]})
                            = IF PassesFilters(issues[k], req[r].body) THEN 1 ELSE 0
                  /\ \A a \in 1..Len(out) : \E k \in 1..Len(issues) : out[a] = issues[k]
                  /\ \A a, b \in 1..Len(out) :
                        a < b => /\ out[a].created_at >= out[b].created_at
                                 /\ out[a].id > out[b].id
      ]_vars

FaqReqs == {r \in Slots : req[r].route = "faqs"}

FaqLists == {g \in Slots : req[g].route = "faqsGet" /\ req[g].sent = <<200>>}

\* t is raw without the blanks at its two ends.
IsTrimOf(t, raw) ==
    /\ t # <<>> => t[1] # SP /\ t[Len(t)] # SP
    /\ \E i \in 0..Len(raw) :
          /\ i + Len(t) <= Len(raw)
          /\ \A k \in 1..Len(t) : raw[i + k] = t[k]
          /\ \A k \in 1..Len(raw) : (k <= i \/ k > i + Len(t)) => raw[k] = SP

\* The 201 of a FAQ creation echoes the stored row, every listing that arrived
\* after that response holds the row, and listings are in ascending id order.
FaqRoundTrip(SameText(_, _)) ==
    /\ \A r \in FaqReqs :
          req[r].sent = <<201>> =>
            /\ req[r].createdId \in 1..Len(faqs)
            /\ req[r].out = <<faqs[req[r].createdId]>>
            /\ faqs[req[r].createdId].id = req[r].createdId
            /\ SameText(faqs[req[r].createdId].question, req[r].body.question.s)
            /\ SameText(faqs[req[r].createdId].answer, req[r].body.answer.s)
            /\ \A g \in FaqLists :
                  r \in req[g].after =>
                      \E a \in 1..Len(req[g].out) :
                          req[g].out[a] = faqs[req[r].createdId]
    /\ \A g \in FaqLists :
          \A a, b \in 1..Len(req[g].out) :
              a < b => req[g].out[a].id < req[g].out[b].id

AsSubmitted(t, raw) == t = raw

\* C16 as stated: the FAQ round trip with the stored question and answer equal
\* to the submitted q and a.
C16_FaqRoundTripAsSubmitted == FaqRoundTrip(AsSubmitted)

\* C16 amended: after a successful POST /api/faqs with question q and answer a,
\* every later GET /api/faqs contains a row with a system-assigned id whose
\* question and answer are q and a without their leading and trailing
\* whitespace; the 201 echoes that stored row; listings are in ascending id
\* order.
C16_FaqRoundTripTrimmed == FaqRoundTrip(IsTrimOf)

\* C16 witness: a FAQ submitted with padded text was answered 201, and a
\* listing that arrived afterwards returned it together with another FAQ.
C16_Witness ==
    \E r \in FaqReqs, g \in FaqLists :
        /\ req[r].sent = <<201>>
        /\ req[r].body.question = Str(<<SP, "p", SP>>)
        /\ r \in req[g].after
        /\ Len(req[g].out) = 2

PluginLists == {g \in Slots : req[g].route = "pluginsGet" /\ req[g].sent = <<200>>}

\* The plugin is linked to a tag of that name.
LinkedToTag(id, name) ==
    \E k \in 1..Len(tags), l \in 1..Len(plugin_tags) :
        /\ tags[k].name = name
        /\ plugin_tags[l].plugin_id = id
        /\ plugin_tags[l].tag_id = tags[k].id

\* term occurs in t.
Contains(t, term) ==
    \E i \in 0..Len(t) :
        /\ i + Len(term) <= Len(t)
        /\ \A k \in 1..Len(term) : t[i + k] = term[k]

\* C17: a 200 listing of GET /api/plugins holds only plugins that match every
\* supplied parameter (linked to the tag, rating at least minRating, name or
\* author containing the search term), and each plugin at most once.
C17_ListPluginsHonoursQuery ==
    \A g \in PluginLists :
        LET out == req[g].out
            query == req[g].body
        IN /\ \A a \in 1..Len(out) :
                /\ query.tag.k = "str" => LinkedToTag(out[a].id, query.tag.s)
                /\ query.minRating.k = "str"
                       => out[a].rating >= ToNumber(query.minRating).n
                /\ query.search.k = "str"
                       => \/ Contains(out[a].name, query.search.s)
                          \/ Contains(out[a].author, query.search.s)
           /\ \A a, b \in 1..Len(out) : a # b => out[a].id # out[b].id

\* C19: with every waiting storage statement eventually executed, each
\* POST /api/plugins that has arrived is eventually answered.
C19_EveryPluginRequestAnswered ==
    \A r \in Requests :
        (req[r].route = "plugins") ~> (req[r].sent # <<>>)

\* C19 witness: a request whose two tag names are both blank or are the same
\* name, or one of whose resolutions failed, has been answered.
C19_Witness ==
    \E r \in Requests :
        /\ req[r].route = "plugins"
        /\ req[r].sent = <<201>>
        /\ Len(req[r].tagList) = 2
        /\ \/ \A i \in 1..2 : req[r].outcome[i] = "blank"
           \/ Trim(req[r].tagList[1]) = Trim(req[r].tagList[2])
           \/ \E i \in 1..2 : req[r].outcome[i] \in {"findErr", "insertErr", "conflict"}

====
